---- MODULE Spec2Model ----
(***************************************************************************)
(* BuildMedic (remorses/self-healing-ci).                                  *)
(*                                                                         *)
(* Two programs are modelled.                                              *)
(*                                                                         *)
(*   SpecReview  the default command of the buildmedic CLI: it reads the   *)
(*               diff of the branch, has the diffparser library parse it,  *)
(*               maps the parsed changes to inline review comments and     *)
(*               posts one review (postReviewFromDirtyChanges), or opens a *)
(*               pull request when it is not running for a pull request.   *)
(*                                                                         *)
(*   SpecRun     the action's entry point (run in index.ts): it runs the   *)
(*               build command once, hands a failed build to the agent     *)
(*               and exits with the status the agent left in STATUS_CODE   *)
(*               through the CLI's `fail` command.                         *)
(*                                                                         *)
(* The CLI is modelled from the version that has the `fail` command; the   *)
(* mapper is the same in both versions of buildmedic.ts.                   *)
(*                                                                         *)
(* The diffparser library and the agent are not part of the repository:    *)
(* what they return is an input of the model.                              *)
(***************************************************************************)
EXTENDS Integers, Sequences, FiniteSets, TLC

\* ------------------------------------------------------------------ bounds

\* Records (files, chunks and changes together) in one parsed diff.
MaxRecords == 6

\* Times the agent calls the CLI's `fail` command during one run.
MaxFailCalls == 2

\* ----------------------------------------------------- the parsed diff

\* An absent (undefined) field of a diffparser record.
Absent == "absent"

\* The path diffparser reports for the missing side of an added or deleted file.
DevNull == "/dev/null"

\* Content of a change as diffparser reports it: the diff line, marker included.
PlusX == <<"+", "x">>
PlusPlusX == <<"+", "+", "x">>
MinusX == <<"-", "x">>
SpaceX == <<" ", "x">>

\* The changes of a chunk: the fields of a change the mapper reads. An added
\* line has no old line number, a deleted line no new one.
Changes ==
    { [type |-> "add",    content |-> PlusX,     oldLine |-> Absent, newLine |-> 1],
      [type |-> "add",    content |-> PlusPlusX, oldLine |-> Absent, newLine |-> 2],
      [type |-> "del",    content |-> MinusX,    oldLine |-> 3,      newLine |-> Absent],
      [type |-> "normal", content |-> SpaceX,    oldLine |-> 4,      newLine |-> 5] }

\* The from/to pairs of a file: changed under a new name, deleted, and a
\* section whose new path diffparser did not fill in.
FilePaths ==
    { [from |-> "old.txt", to |-> "new.txt"],
      [from |-> "old.txt", to |-> DevNull],
      [from |-> "old.txt", to |-> Absent] }

\* A file section just opened: no chunk yet.
NewFile(p) == [from |-> p.from, to |-> p.to, chunks |-> <<>>]

\* A chunk just opened: no change yet.
NewChunk == [changes |-> <<>>]

\* The last file of d has a chunk.
HasChunk(d) == Len(d) > 0 /\ Len(d[Len(d)].chunks) > 0

\* d with a chunk opened in its last file.
AddChunk(d) == [d EXCEPT ![Len(d)].chunks = Append(@, NewChunk)]

\* d with change c added to the last chunk of its last file.
AddChange(d, c) ==
    [d EXCEPT ![Len(d)].chunks[Len(d[Len(d)].chunks)].changes = Append(@, c)]

\* The parsed diffs one record larger than those of D: a file section opened
\* after the last one, a chunk opened in the last file, a change added to the
\* last chunk.
Extensions(D) ==
    { Append(d, NewFile(p)) : d \in D, p \in FilePaths }
      \cup { AddChunk(d) : d \in { e \in D : Len(e) > 0 } }
      \cup { AddChange(d, c) : d \in { e \in D : HasChunk(e) }, c \in Changes }

RECURSIVE DiffsOf(_)
\* Every parsed diff of exactly k records.
DiffsOf(k) == IF k = 0 THEN { <<>> } ELSE Extensions(DiffsOf(k - 1))

\* Every parsed diff of at most k records.
DiffsUpTo(k) == UNION { DiffsOf(j) : j \in 0..k }

\* What parse(diff) may return.
ParsedDiffs == DiffsUpTo(MaxRecords)

\* ------------------------------------------------- buildmedic: the mapper

\* SkipFile without the test: a deleted file is walked like any other.
SkipNoFile(file) == FALSE

\* file.to === '/dev/null': a whole-file deletion, which gets no comment.
SkipFile(file) == file.to = DevNull

\* ResolvePath with the operands swapped: file.from || file.to
ResolveOldPath(file) == IF file.from # Absent THEN file.from ELSE file.to

\* file.to || file.from
ResolvePath(file) == IF file.to # Absent THEN file.to ELSE file.from

RECURSIVE StripAllPlus(_)
\* StripPlus with the pattern /^\++/: every leading plus sign removed.
StripAllPlus(content) ==
    IF content # <<>> /\ Head(content) = "+" THEN StripAllPlus(Tail(content)) ELSE content

\* content.replace(/^\+/, ''): one leading plus sign removed, if there is one.
StripPlus(content) ==
    IF content # <<>> /\ Head(content) = "+" THEN Tail(content) ELSE content

\* The opening and closing lines of a suggestion block; FENCE stands for the
\* three backquotes of a fenced block.
SuggestionOpen == "FENCEsuggestion\n"
SuggestionClose == "\nFENCE"

\* The body of the comment on an added line.
SuggestionBody(content) == <<SuggestionOpen>> \o StripPlus(content) \o <<SuggestionClose>>

\* The comments one change adds to the review: one for an addition, one for a
\* deletion, none otherwise.
CommentsFor(p, change) ==
    IF change.type = "add"
    THEN << [path |-> p, line |-> change.newLine, side |-> "RIGHT",
             body |-> SuggestionBody(change.content)] >>
    ELSE IF change.type = "del"
    THEN << [path |-> p, line |-> change.oldLine, side |-> "LEFT", body |-> <<>>] >>
    ELSE << >>

\* Push as comments.unshift(...): the new comments go to the front.
PushFront(list, new) == new \o list

\* comments.push(...)
Push(list, new) == list \o new

\* NothingToPost without the test: a review is posted whatever was collected.
PostAnyway(list) == FALSE

\* !comments.length: nothing to post.
NothingToPost(list) == Len(list) = 0

\* isRunningForPR(): either source names a pull-request event.
PullRequestEvents == {"pull_request", "pull_request_target"}
EventNames == {"push"} \cup PullRequestEvents
IsRunningForPR(envEvent, contextEvent) ==
    envEvent \in PullRequestEvents \/ contextEvent \in PullRequestEvents

\* ------------------------------------------------- index.ts: helpers

\* A number as parseInt gives it is written <<n>>, and NaN is written << >>.
NaN == << >>

\* The decimal digits and their values.
DigitValue ==
    [c \in {"0", "1", "2", "3", "4", "5", "6", "7", "8", "9"} |->
        CASE c = "0" -> 0 [] c = "1" -> 1 [] c = "2" -> 2 [] c = "3" -> 3
          [] c = "4" -> 4 [] c = "5" -> 5 [] c = "6" -> 6 [] c = "7" -> 7
          [] c = "8" -> 8 [] c = "9" -> 9]

RECURSIVE LeadingDigits(_)
\* The longest prefix of the text made of digits.
LeadingDigits(text) ==
    IF text = <<>> \/ Head(text) \notin DOMAIN DigitValue THEN <<>>
    ELSE <<Head(text)>> \o LeadingDigits(Tail(text))

RECURSIVE DigitsValue(_)
\* The number a sequence of digits writes.
DigitsValue(digits) ==
    IF digits = <<>> THEN 0
    ELSE 10 * DigitsValue(SubSeq(digits, 1, Len(digits) - 1))
             + DigitValue[digits[Len(digits)]]

\* parseInt(text): the number its leading digits write, NaN without any.
ParseInt(text) ==
    IF LeadingDigits(text) = <<>> THEN NaN ELSE << DigitsValue(LeadingDigits(text)) >>

\* The characters String.prototype.trim removes.
WhiteSpace == {" ", "\n"}

RECURSIVE TrimStart(_)
TrimStart(text) ==
    IF text # <<>> /\ Head(text) \in WhiteSpace THEN TrimStart(Tail(text)) ELSE text

RECURSIVE TrimEnd(_)
TrimEnd(text) ==
    IF text # <<>> /\ text[Len(text)] \in WhiteSpace
    THEN TrimEnd(SubSeq(text, 1, Len(text) - 1))
    ELSE text

\* text.trim()
Trim(text) == TrimEnd(TrimStart(text))

\* An environment variable that is not set.
Unset == << "unset" >>

\* x || fallback, for a text: an unset or empty text gives the fallback.
OrElse(text, fallback) == IF text = Unset \/ text = <<>> THEN fallback ELSE text

\* n || 0, for a number: NaN and 0 give 0.
OrZero(n) == IF n = NaN THEN 0 ELSE n[1]

\* parseInt(process.env.INPUT_MAX_ATTEMPTS || "3")
MaxAttemptsOf(input) == ParseInt(OrElse(input, <<"3">>))

\* What the workflow may put in INPUT_MAX_ATTEMPTS.
MaxAttemptsInputs == {Unset, <<>>, <<"5">>, <<"1", "0">>, <<"x">>}

\* What `git config --get` may print for the credentials header, trimmed.
StoredCredentials == {"", "AUTHORIZATION: basic abc"}

\* What the CLI's `fail` command writes to STATUS_CODE.
FailStatus == <<"1">>

\* STATUS_CODE is written << text >> when it holds text, and << >> when there is
\* no such file.
NoFile == << >>
FileWith(text) == << text >>

\* StatusExitCode with the file's content ignored: process.exit(0)
StatusIgnored(text) == 0

\* process.exit(parseInt(statusCode.trim()) || 0)
StatusExitCode(text) == OrZero(ParseInt(Trim(text)))

\* ------------------------------------------------------------- state

VARIABLES
    pc,        \* where the command is
    files,     \* what parse(diff) returned
    fi,        \* the file the outer loop is at
    ci,        \* the chunk the middle loop is at
    li,        \* the change the inner loop is at
    path,      \* path of the file being walked
    comments,  \* the comments collected so far
    origin,    \* history: for each collected comment, the <<file, chunk, change>> it came from
    reviews,   \* the comment lists handed to createReview
    outcome,   \* how the command ended
    exitCode   \* status the process ends with (0 unless process.exit sets it)

reviewVars == <<pc, files, fi, ci, li, path, comments, origin, reviews, outcome, exitCode>>

VARIABLES
    rpc,             \* where run() is
    maxAttempts,     \* the constant of that name
    actionPath,      \* GITHUB_ACTION_PATH is set
    gitCredentials,  \* the credentials header saved by configureGit
    buildRuns,       \* times run() ran the build command
    buildResult,     \* how the build command ended
    commandFailed,   \* the flag of that name
    agentRuns,       \* times runOpencode was called
    agentResult,     \* how the agent ended
    failCalls,       \* times the agent called `buildmedic fail`
    failExit,        \* exit status of the last `buildmedic fail` (0 before any)
    statusFile,      \* STATUS_CODE: NoFile, or FileWith its content
    restored,        \* restoreGitConfig on line 84 has returned
    runExit          \* status the action ends with (0 unless process.exit sets it)

runVars == <<rpc, maxAttempts, actionPath, gitCredentials, buildRuns, buildResult,
             commandFailed, agentRuns, agentResult, failCalls, failExit,
             statusFile, restored, runExit>>

vars == <<reviewVars, runVars>>

\* ------------------------------------- buildmedic: the default command

InitReview ==
    /\ pc = "cli"
    /\ files = <<>>
    /\ fi = 0
    /\ ci = 0
    /\ li = 0
    /\ path = Absent
    /\ comments = <<>>
    /\ origin = <<>>
    /\ reviews = <<>>
    /\ outcome = "running"
    /\ exitCode = 0

\* The command ends: with process.exit(1) on an error, by returning otherwise.
Ends(how, code) ==
    /\ pc' = "exit"
    /\ outcome' = how
    /\ exitCode' = code

\* The action of the default command: review a pull request, or open one,
\* which needs a title and a message.
Command ==
    /\ pc = "cli"
    /\ \E envEvent \in EventNames, contextEvent \in EventNames,
          hasTitle \in BOOLEAN, hasMessage \in BOOLEAN :
          IF IsRunningForPR(envEvent, contextEvent)
          THEN pc' = "context" /\ UNCHANGED <<outcome, exitCode>>
          ELSE IF ~hasTitle \/ ~hasMessage
          THEN Ends("usage", 1)
          ELSE pc' = "pr" /\ UNCHANGED <<outcome, exitCode>>
    /\ UNCHANGED runVars
    /\ UNCHANGED <<files, fi, ci, li, path, comments, origin, reviews>>

\* gh pr create: done, or nothing to compare (an issue is opened instead), or
\* another error.
CreatePullRequest ==
    /\ pc = "pr"
    /\ \E result \in {"created", "no commits", "error"} :
          CASE result = "created" -> Ends("pull request", 0)
            [] result = "no commits" -> pc' = "issue" /\ UNCHANGED <<outcome, exitCode>>
            [] result = "error" -> Ends("failed", 1)
    /\ UNCHANGED runVars
    /\ UNCHANGED <<files, fi, ci, li, path, comments, origin, reviews>>

\* gh issue create.
CreateIssue ==
    /\ pc = "issue"
    /\ \E created \in BOOLEAN :
          IF created THEN Ends("issue", 0) ELSE Ends("failed", 1)
    /\ UNCHANGED runVars
    /\ UNCHANGED <<files, fi, ci, li, path, comments, origin, reviews>>

\* postReviewFromDirtyChanges, up to the diff: the pull request number, the
\* token and the base commit must be there.
ReviewContext ==
    /\ pc = "context"
    /\ \E hasPullNumber \in BOOLEAN, hasToken \in BOOLEAN, hasBase \in BOOLEAN :
          IF hasPullNumber /\ hasToken /\ hasBase
          THEN pc' = "diff" /\ UNCHANGED <<outcome, exitCode>>
          ELSE Ends("failed", 1)
    /\ UNCHANGED runVars
    /\ UNCHANGED <<files, fi, ci, li, path, comments, origin, reviews>>

\* git diff, then parse(diff): git may fail; a blank diff ends the command; the
\* library may throw; otherwise it returns the files to walk.
GitDiff ==
    /\ pc = "diff"
    /\ \/ /\ \E how \in {"git failed", "parse failed"} : Ends("failed", 1)
          /\ UNCHANGED <<files, fi>>
       \/ /\ Ends("no changes", 0)
          /\ UNCHANGED <<files, fi>>
       \/ /\ \E parsed \in ParsedDiffs : files' = parsed
          /\ fi' = 1
          /\ pc' = "files"
          /\ UNCHANGED <<outcome, exitCode>>
    /\ UNCHANGED runVars
    /\ UNCHANGED <<ci, li, path, comments, origin, reviews>>

\* for (const file of files): past the last file the loop ends; a deleted
\* file is passed over; any other file is entered.
NextFile ==
    /\ pc = "files"
    /\ IF fi > Len(files)
       THEN pc' = "submit" /\ UNCHANGED <<fi, ci, path>>
       ELSE IF SkipFile(files[fi])
       THEN fi' = fi + 1 /\ UNCHANGED <<pc, ci, path>>
       ELSE /\ path' = ResolvePath(files[fi])
            /\ ci' = 1
            /\ pc' = "chunks"
            /\ UNCHANGED fi
    /\ UNCHANGED runVars
    /\ UNCHANGED <<files, li, comments, origin, reviews, outcome, exitCode>>

\* for (const { changes } of file.chunks)
NextChunk ==
    /\ pc = "chunks"
    /\ IF ci > Len(files[fi].chunks)
       THEN fi' = fi + 1 /\ pc' = "files" /\ UNCHANGED <<ci, li>>
       ELSE li' = 1 /\ pc' = "changes" /\ UNCHANGED <<fi, ci>>
    /\ UNCHANGED runVars
    /\ UNCHANGED <<files, path, comments, origin, reviews, outcome, exitCode>>

\* for (const change of changes): the comments of the change are pushed.
NextChange ==
    /\ pc = "changes"
    /\ LET changes == files[fi].chunks[ci].changes IN
       IF li > Len(changes)
       THEN ci' = ci + 1 /\ pc' = "chunks" /\ UNCHANGED <<li, comments, origin>>
       ELSE LET new == CommentsFor(path, changes[li]) IN
            /\ comments' = Push(comments, new)
            /\ origin' = Push(origin, [i \in 1..Len(new) |-> <<fi, ci, li>>])
            /\ li' = li + 1
            /\ UNCHANGED <<pc, ci>>
    /\ UNCHANGED runVars
    /\ UNCHANGED <<files, fi, path, reviews, outcome, exitCode>>

\* Nothing collected: the command returns. Otherwise createReview is called
\* with the comments, and may fail.
Submit ==
    /\ pc = "submit"
    /\ IF NothingToPost(comments)
       THEN Ends("no comments", 0) /\ UNCHANGED reviews
       ELSE /\ reviews' = Append(reviews, comments)
            /\ \E posted \in BOOLEAN :
                  IF posted THEN Ends("posted", 0) ELSE Ends("failed", 1)
    /\ UNCHANGED runVars
    /\ UNCHANGED <<files, fi, ci, li, path, comments, origin>>

NextReview ==
    \/ Command
    \/ CreatePullRequest
    \/ CreateIssue
    \/ ReviewContext
    \/ GitDiff
    \/ NextFile
    \/ NextChunk
    \/ NextChange
    \/ Submit


\* -------------------------------------------------- index.ts: run()

InitRun ==
    /\ rpc = "load"
    /\ maxAttempts \in { MaxAttemptsOf(input) : input \in MaxAttemptsInputs }
    /\ actionPath \in BOOLEAN
    /\ gitCredentials = Absent
    /\ buildRuns = 0
    /\ buildResult = "not run"
    /\ commandFailed = FALSE
    /\ agentRuns = 0
    /\ agentResult = "not run"
    /\ failCalls = 0
    /\ failExit = 0
    /\ statusFile = NoFile
    /\ restored = FALSE
    /\ runExit = 0

\* process.exit(code)
Exits(code) == rpc' = "exited" /\ runExit' = code

\* restoreGitConfig runs a git command, which may fail, only when credentials
\* were saved.
RestoreRunsGit == gitCredentials # Absent /\ gitCredentials # ""

\* The outcomes of restoreGitConfig: TRUE when it returns, FALSE when it throws.
RestoreOutcomes == IF RestoreRunsGit THEN BOOLEAN ELSE {TRUE}

\* Module load: without a build command the action fails.
Load ==
    /\ rpc = "load"
    /\ \E hasBuildCommand \in BOOLEAN :
          IF hasBuildCommand
          THEN rpc' = "token" /\ UNCHANGED runExit
          ELSE Exits(1)
    /\ UNCHANGED reviewVars
    /\ UNCHANGED <<maxAttempts, actionPath, gitCredentials, buildRuns, buildResult, commandFailed,
                   agentRuns, agentResult, failCalls, failExit, statusFile, restored>>

\* run(), up to the build: the token must be set; configureGit saves the
\* credentials header with its first git command and may fail there or later;
\* assertPermissions and git checkout may fail. A failure goes to the catch.
Setup ==
    /\ rpc = "token"
    /\ \E failsAt \in {"token", "get credentials", "set credentials", "permissions",
                       "checkout", "nowhere"},
          stored \in StoredCredentials :
          /\ gitCredentials' =
                 IF failsAt \in {"token", "get credentials"} THEN gitCredentials
                 ELSE stored
          /\ rpc' = IF failsAt = "nowhere" THEN "build" ELSE "catch"
    /\ UNCHANGED reviewVars
    /\ UNCHANGED <<maxAttempts, actionPath, buildRuns, buildResult, commandFailed,
                   agentRuns, agentResult, failCalls, failExit, statusFile, restored,
                   runExit>>

\* The inner try block: the build command runs once. When it fails the flag is
\* set. When it succeeds the git configuration is restored and the process
\* exits with 0; an exception of restoreGitConfig is caught by the same catch
\* clause as a failed build.
Build ==
    /\ rpc = "build"
    /\ buildRuns' = buildRuns + 1
    /\ \E succeeded \in BOOLEAN, restoreReturns \in RestoreOutcomes :
          IF succeeded /\ restoreReturns
          THEN /\ buildResult' = "succeeded"
               /\ Exits(0)
               /\ UNCHANGED commandFailed
          ELSE /\ buildResult' = IF succeeded THEN "succeeded" ELSE "failed"
               /\ commandFailed' = TRUE
               /\ rpc' = "heal"
               /\ UNCHANGED runExit
    /\ UNCHANGED reviewVars
    /\ UNCHANGED <<maxAttempts, actionPath, gitCredentials, agentRuns, agentResult,
                   failCalls, failExit, statusFile, restored>>

\* if (commandFailed): the prompt is rendered, which may fail, and runOpencode
\* starts the agent.
Heal ==
    /\ rpc = "heal"
    /\ IF commandFailed
       THEN \E promptBuilt \in BOOLEAN :
               IF promptBuilt
               THEN /\ agentRuns' = agentRuns + 1
                    /\ agentResult' = "running"
                    /\ rpc' = "agent"
               ELSE /\ rpc' = "catch"
                    /\ UNCHANGED <<agentRuns, agentResult>>
       ELSE rpc' = "restore" /\ UNCHANGED <<agentRuns, agentResult>>
    /\ UNCHANGED reviewVars
    /\ UNCHANGED <<maxAttempts, actionPath, gitCredentials, buildRuns, buildResult,
                   commandFailed, failCalls, failExit, statusFile, restored, runExit>>

\* The `fail` command of the CLI, called by the agent: without
\* GITHUB_ACTION_PATH it exits with 1; otherwise it writes 1 to STATUS_CODE and
\* exits with 0.
FailCommand ==
    /\ rpc = "agent"
    /\ failCalls < MaxFailCalls
    /\ failCalls' = failCalls + 1
    /\ IF ~actionPath
       THEN failExit' = 1 /\ UNCHANGED statusFile
       ELSE statusFile' = FileWith(FailStatus) /\ failExit' = 0
    /\ UNCHANGED reviewVars
    /\ UNCHANGED <<rpc, maxAttempts, actionPath, gitCredentials, buildRuns, buildResult,
                   commandFailed, agentRuns, agentResult, restored, runExit>>

\* opencode ends: runOpencode returns, or throws when opencode exits with an
\* error.
AgentEnds ==
    /\ rpc = "agent"
    /\ \E returned \in BOOLEAN :
          /\ agentResult' = IF returned THEN "returned" ELSE "threw"
          /\ rpc' = IF returned THEN "restore" ELSE "catch"
    /\ UNCHANGED reviewVars
    /\ UNCHANGED <<maxAttempts, actionPath, gitCredentials, buildRuns, buildResult,
                   commandFailed, agentRuns, failCalls, failExit, statusFile, restored,
                   runExit>>

\* After the agent: the git configuration is restored; then the process exits
\* with the status found in STATUS_CODE, or run() returns when there is no
\* such file and the process ends with 0.
Finish ==
    /\ rpc = "restore"
    /\ \E restoreReturns \in RestoreOutcomes :
          IF ~restoreReturns
          THEN rpc' = "catch" /\ UNCHANGED <<restored, runExit>>
          ELSE /\ restored' = TRUE
               /\ IF statusFile # NoFile
                  THEN Exits(StatusExitCode(statusFile[1]))
                  ELSE Exits(0)
    /\ UNCHANGED reviewVars
    /\ UNCHANGED <<maxAttempts, actionPath, gitCredentials, buildRuns, buildResult,
                   commandFailed, agentRuns, agentResult, failCalls, failExit,
                   statusFile>>

\* The catch clause of run(): the git configuration is restored, the action is
\* marked failed and the process exits with 1. When restoreGitConfig throws
\* here the rejection of run() is unhandled, which also ends the process
\* with 1.
Catch ==
    /\ rpc = "catch"
    /\ \E restoreReturns \in RestoreOutcomes : Exits(1)
    /\ UNCHANGED reviewVars
    /\ UNCHANGED <<maxAttempts, actionPath, gitCredentials, buildRuns, buildResult,
                   commandFailed, agentRuns, agentResult, failCalls, failExit,
                   statusFile, restored>>

NextRun ==
    \/ Load
    \/ Setup
    \/ Build
    \/ Heal
    \/ FailCommand
    \/ AgentEnds
    \/ Finish
    \/ Catch

\* The CLI's default command, the action not running.
IdleRun ==
    /\ rpc = "idle"
    /\ maxAttempts = NaN
    /\ actionPath = FALSE
    /\ gitCredentials = Absent
    /\ buildRuns = 0
    /\ buildResult = "not run"
    /\ commandFailed = FALSE
    /\ agentRuns = 0
    /\ agentResult = "not run"
    /\ failCalls = 0
    /\ failExit = 0
    /\ statusFile = NoFile
    /\ restored = FALSE
    /\ runExit = 0

\* The action, the CLI's default command not running.
IdleReview ==
    /\ pc = "idle"
    /\ files = <<>>
    /\ fi = 0
    /\ ci = 0
    /\ li = 0
    /\ path = Absent
    /\ comments = <<>>
    /\ origin = <<>>
    /\ reviews = <<>>
    /\ outcome = "idle"
    /\ exitCode = 0

\* The CLI's default command starts.
StartReview == InitReview /\ IdleRun

\* The action starts.
StartRun == InitRun /\ IdleReview

SpecReview == StartReview /\ [][NextReview]_vars

SpecRun == StartRun /\ [][NextRun]_vars


\* ------------------------------------------------ claims on the mapper

\* The walk over the parsed files is over.
MappingDone == pc \in {"submit", "exit"} /\ fi > Len(files)

\* The collected comments that came from change l of chunk h of file f.
CommentsAt(f, h, l) == { i \in 1..Len(origin) : origin[i] = <<f, h, l>> }

\* The text of a changed line: its content without the marker character.
LineText(change) == Tail(change.content)

\* <<f1, h1, l1>> comes before <<f2, h2, l2>> in the diff.
Before(a, b) ==
    \/ a[1] < b[1]
    \/ a[1] = b[1] /\ a[2] < b[2]
    \/ a[1] = b[1] /\ a[2] = b[2] /\ a[3] < b[3]

\* C1: once the files are walked, every change of every chunk of a file that
\* is not a whole-file deletion has exactly one comment if it is an addition
\* (side RIGHT, at its new line, the body a suggestion block around its text),
\* exactly one if it is a deletion (side LEFT, at its old line, empty body),
\* and none if it is a context line.
C1_OneCommentPerChange ==
    MappingDone =>
        \A f \in 1..Len(files) :
            files[f].to # DevNull =>
                \A h \in 1..Len(files[f].chunks) :
                    \A l \in 1..Len(files[f].chunks[h].changes) :
                        LET change == files[f].chunks[h].changes[l]
                            at == CommentsAt(f, h, l)
                        IN  CASE change.type = "add" ->
                                   /\ Cardinality(at) = 1
                                   /\ \A i \in at :
                                         /\ comments[i].side = "RIGHT"
                                         /\ comments[i].line = change.newLine
                                         /\ comments[i].body =
                                               <<SuggestionOpen>> \o LineText(change)
                                                   \o <<SuggestionClose>>
                              [] change.type = "del" ->
                                   /\ Cardinality(at) = 1
                                   /\ \A i \in at :
                                         /\ comments[i].side = "LEFT"
                                         /\ comments[i].line = change.oldLine
                                         /\ comments[i].body = <<>>
                              [] OTHER -> at = {}

\* C1's case: a walked file holding an addition whose text itself starts with a
\* plus sign, a deletion and a context line.
C1_Witness ==
    /\ MappingDone
    /\ \E f \in 1..Len(files) :
          /\ files[f].to # DevNull
          /\ \E h \in 1..Len(files[f].chunks) :
                LET types == { files[f].chunks[h].changes[l].type :
                                   l \in 1..Len(files[f].chunks[h].changes) }
                IN  /\ types = {"add", "del", "normal"}
                    /\ \E l \in 1..Len(files[f].chunks[h].changes) :
                          files[f].chunks[h].changes[l].content = PlusPlusX

\* C2: no collected comment comes from a file whose new path is /dev/null.
C2_DeletedFileSilent ==
    \A i \in 1..Len(origin) : files[origin[i][1]].to # DevNull

\* C2's case: the walk is over a diff in which a deleted file with an added
\* and a removed line stands before a file that got a comment.
C2_Witness ==
    /\ MappingDone
    /\ Len(files) = 2
    /\ files[1].to = DevNull
    /\ \E h \in 1..Len(files[1].chunks) :
          \E l \in 1..Len(files[1].chunks[h].changes) :
              files[1].chunks[h].changes[l].type \in {"add", "del"}
    /\ Len(comments) > 0

\* C3: the collected comments stand in the order of the changes they came
\* from (file, then chunk, then place in the chunk), each change at most once.
C3_OrderPreserved ==
    /\ Len(origin) = Len(comments)
    /\ \A i \in 1..Len(origin) :
          \A j \in 1..Len(origin) : i < j => Before(origin[i], origin[j])

\* C3's case: three comments, two from one chunk and the third from a later
\* chunk.
C3_Witness ==
    /\ MappingDone
    /\ Len(origin) = 3
    /\ origin[1][2] = origin[2][2]
    /\ origin[2][2] < origin[3][2]

\* C4: createReview is called at most once and only with the collected
\* comments; once the files are walked and the command has ended it was called
\* if and only if there is a comment; and with no comment the command returned
\* normally, having posted nothing, as it does on a blank diff.
C4_SubmitIffComments ==
    /\ Len(reviews) <= 1
    /\ \A r \in 1..Len(reviews) : reviews[r] = comments /\ Len(comments) > 0
    /\ (pc = "exit" /\ MappingDone) => (Len(reviews) = 1 <=> Len(comments) > 0)
    /\ (pc = "exit" /\ MappingDone /\ Len(comments) = 0) =>
           outcome = "no comments" /\ exitCode = 0
    /\ (pc = "exit" /\ fi = 0) => reviews = <<>>
    /\ (pc = "exit" /\ outcome \in {"no changes", "no comments"}) =>
           exitCode = 0 /\ reviews = <<>>

\* C4's case: a diff with a context line and a deleted file that holds
\* changes ended without a review.
C4_Witness ==
    /\ pc = "exit"
    /\ MappingDone
    /\ outcome = "no comments"
    /\ \E f \in 1..Len(files) :
          \E h \in 1..Len(files[f].chunks) : Len(files[f].chunks[h].changes) > 0

\* C7: a comment carries the new path of the file it came from when the file
\* has one, and the old path otherwise.
C7_PathResolved ==
    \A i \in 1..Len(comments) :
        LET file == files[origin[i][1]]
        IN  /\ file.to # Absent => comments[i].path = file.to
            /\ file.to = Absent => comments[i].path = file.from

\* C7's case: comments from a renamed file and from a file without a new path.
C7_Witness ==
    /\ MappingDone
    /\ \E i \in 1..Len(comments) :
          LET file == files[origin[i][1]]
          IN  file.to # Absent /\ file.to # file.from /\ comments[i].path = file.to
    /\ \E i \in 1..Len(comments) :
          files[origin[i][1]].to = Absent

\* ------------------------------------------------ claims on the action

\* C9: the agent runs only after the build command has failed; a run whose
\* build command succeeded ends with status 0 and without the agent; and the
\* build command and the agent each run at most once.
C9_AgentOnlyAfterFailedBuild ==
    /\ agentRuns > 0 => buildResult = "failed"
    /\ (rpc = "exited" /\ buildResult = "succeeded") => (runExit = 0 /\ agentRuns = 0)
    /\ buildRuns <= 1
    /\ agentRuns <= 1

====
